---- MODULE Spec2Model ----
(***************************************************************************)
(* Model of src/score/find_patterns.py: language resolution, pattern       *)
(* splitting, the chained matching of every (course, pattern, field)       *)
(* triple into the T_matches table, and the final export.                  *)
(*                                                                         *)
(* Texts are sequences of one-character strings, offsets are 0-based as in *)
(* Python.  A compiled sub-pattern is modelled by the literal it matches   *)
(* (case-insensitively); the catalog, the taxonomy and the outcome of the  *)
(* external language detector are inputs chosen in Init.                   *)
(***************************************************************************)
EXTENDS Integers, Sequences, FiniteSets, TLC

VARIABLES
    courses_json,   \* the crawled catalog read by import_courses (input)
    patterns_json,  \* the raw taxonomy read by import_patterns (input)
    courses,        \* the DataFrame returned by import_courses
    patterns,       \* the DataFrame returned by import_patterns
    pc,             \* position of score()
    c, p, f,        \* indices of the course / pattern / field loops of score
    tableExists,    \* whether table T_matches exists in the sqlite db
    T_matches,      \* rows of table T_matches, in insertion order
    export,         \* content of the export file, None while not written
    last,           \* the last call of find_pattern_in_course_field
    prev            \* the outcome of the previous process run

vars == <<courses_json, patterns_json, courses, patterns, pc, c, p, f,
          tableExists, T_matches, export, last, prev>>

\* ---------------------------------------------------------------- bounds
MaxCourses == 2
MaxPad == 22

\* ---------------------------------------------------------- Python values
None == [none |-> TRUE]
Some(v) == [none |-> FALSE, val |-> v]

Range(s) == {s[i] : i \in 1..Len(s)}

Max(a, b) == IF a >= b THEN a ELSE b
Min(a, b) == IF a <= b THEN a ELSE b

\* text[lo:hi] for 0 <= lo, 0 <= hi
Slice(text, lo, hi) == SubSeq(text, lo + 1, Min(hi, Len(text)))

\* ------------------------------------------------------------- constants
ACCEPTED_LANGUAGES == <<"en", "fr", "nl">>

EXCERPT_MARGIN == 20

NBSP == "nbsp"
RSQUO == "rsquo"

\* scoring_fields[school]: the identifying field first, then the scorable ones
SCORING_FIELDS == <<"id", "content">>

\* ----------------------------------------------------- language resolution
\* The orders in which iterating a set of language codes can yield them
\* (string hashing is seeded per process).
SetOrders ==
    {o \in [1..Len(ACCEPTED_LANGUAGES) -> Range(ACCEPTED_LANGUAGES)] :
        \A i, j \in DOMAIN o : i # j => o[i] # o[j]}

IsAccepted(l) == l \in Range(ACCEPTED_LANGUAGES)

detected_unfiltered(det) == det.langs

detected_and_supported_languages(det) == SelectSeq(det.langs, IsAccepted)

declared_and_supported_languages(declared_languages, order) ==
    LET s == Range(declared_languages) \cap Range(ACCEPTED_LANGUAGES)
        In(l) == l \in s
    IN  SelectSeq(order, In)

find_language_declared_first(text, declared_languages, det, order) ==
    IF text.none THEN None
    ELSE IF det.raised THEN None
    ELSE IF declared_and_supported_languages(declared_languages, order) # <<>>
         THEN Some(declared_and_supported_languages(declared_languages, order))
         ELSE Some(detected_and_supported_languages(det))

\* det is the outcome of detect_languages(text): it raised
\* LangDetectException, or it returned the ranked codes det.langs
find_language(text, declared_languages, det, order) ==
    IF text.none THEN None
    ELSE IF det.raised THEN None
    ELSE IF detected_and_supported_languages(det) = <<>>
         THEN Some(declared_and_supported_languages(declared_languages, order))
         ELSE Some(detected_and_supported_languages(det))

\* ------------------------------------------------------------- loading
translate(ch) ==
    IF ch = NBSP THEN " " ELSE IF ch = RSQUO THEN "'" ELSE ch

\* text.translate(translation_map); raises AttributeError on a null value
clean_text(text) == [i \in 1..Len(text) |-> translate(text[i])]

language_fields_from_first == SCORING_FIELDS

\* scoring_fields[1:], the fields given a <field>_languages4scoring column
language_fields == Tail(SCORING_FIELDS)

\* one row of the DataFrame built by import_courses
course_row(course, order) ==
    [col |-> [fld \in Range(SCORING_FIELDS) |-> Some(clean_text(course.col[fld].val))],
     languages |-> course.languages,
     languages4scoring |->
        [fld \in Range(language_fields) |->
            find_language(Some(clean_text(course.col[fld].val)), course.languages,
                          course.detect[fld], order)]]

\* ------------------------------------------------------------- patterns
RECURSIVE split(_, _)
\* pattern.split(sep)
split(pattern, sep) ==
    IF \E i \in 1..Len(pattern) : pattern[i] = sep
    THEN LET i == CHOOSE k \in 1..Len(pattern) :
                    /\ pattern[k] = sep
                    /\ \A j \in 1..(k - 1) : pattern[j] # sep
         IN  <<SubSeq(pattern, 1, i - 1)>> \o split(SubSeq(pattern, i + 1, Len(pattern)), sep)
    ELSE <<pattern>>

break_into_sub_patterns(pattern) ==
    IF pattern.none THEN <<>> ELSE split(pattern.val, "#")

pattern_row(e) ==
    [id |-> e.pattern_id,
     en |-> break_into_sub_patterns(e.pattern_en),
     fr |-> break_into_sub_patterns(e.pattern_fr),
     nl |-> break_into_sub_patterns(e.pattern_nl)]

\* ------------------------------------------------------------- matching
\* re.IGNORECASE on the model's alphabet
lower(ch) == IF ch = "A" THEN "a" ELSE IF ch = "B" THEN "b" ELSE ch

match_at(sub_pattern, text, pos) ==
    \A i \in 1..Len(sub_pattern) : lower(text[pos + i]) = lower(sub_pattern[i])

RECURSIVE finditer_from(_, _, _)
finditer_from(sub_pattern, text, pos) ==
    IF pos + Len(sub_pattern) > Len(text) THEN <<>>
    ELSE IF match_at(sub_pattern, text, pos)
         THEN <<[start |-> pos, end |-> pos + Len(sub_pattern)]>>
              \o finditer_from(sub_pattern, text,
                               IF Len(sub_pattern) = 0 THEN pos + 1
                               ELSE pos + Len(sub_pattern))
         ELSE finditer_from(sub_pattern, text, pos + 1)

\* list(sub_pattern.finditer(text)): the non-overlapping matches, left to right
finditer(sub_pattern, text) == finditer_from(sub_pattern, text, 0)

\* text[max(0, start-20) : min(end+20, len(text)-1)]
extract(text, start, end) ==
    Slice(text, Max(0, start - EXCERPT_MARGIN), Min(end + EXCERPT_MARGIN, Len(text) - 1))

match_record(course, scoring_field, pattern, sub_pattern, text, m) ==
    [id |-> course.col["id"].val,
     field |-> scoring_field,
     pattern |-> pattern.id,
     sub_pattern |-> sub_pattern,
     start |-> m.start,
     end |-> m.end,
     extract |-> extract(text, m.start, m.end)]

sub_pattern_records(course, scoring_field, pattern, sub_pattern, text) ==
    LET ms == finditer(sub_pattern, text)
    IN  [i \in 1..Len(ms) |->
            match_record(course, scoring_field, pattern, sub_pattern, text, ms[i])]

RECURSIVE chain_incremental(_, _, _, _, _)
chain_incremental(course, scoring_field, pattern, sub_patterns, text) ==
    IF sub_patterns = <<>> THEN [returned |-> FALSE, rows |-> <<>>]
    ELSE LET here == sub_pattern_records(course, scoring_field, pattern,
                                         Head(sub_patterns), text)
             rest == chain_incremental(course, scoring_field, pattern,
                                       Tail(sub_patterns), text)
         IN  IF here = <<>> THEN [returned |-> FALSE, rows |-> <<>>]
             ELSE [returned |-> FALSE, rows |-> here \o rest.rows]

RECURSIVE chain(_, _, _, _, _)
\* The loop over sub_patterns: it returns early on the first sub-pattern
\* without a match, else it ends with all the records in matched_patterns.
chain(course, scoring_field, pattern, sub_patterns, text) ==
    IF sub_patterns = <<>> THEN [returned |-> FALSE, rows |-> <<>>]
    ELSE LET here == sub_pattern_records(course, scoring_field, pattern,
                                         Head(sub_patterns), text)
             rest == chain(course, scoring_field, pattern, Tail(sub_patterns), text)
         IN  IF here = <<>> \/ rest.returned
             THEN [returned |-> TRUE, rows |-> <<>>]
             ELSE [returned |-> FALSE, rows |-> here \o rest.rows]

first_nonempty_chain(pattern, languages) ==
    LET NonEmpty(l) == l \in DOMAIN pattern /\ pattern[l] # <<>>
        ls == SelectSeq(languages, NonEmpty)
    IN  IF ls = <<>> THEN <<>> ELSE pattern[ls[1]]

\* getattr(pattern, languages[0], None)
sub_patterns_of(pattern, languages) ==
    IF languages[1] \in DOMAIN pattern THEN pattern[languages[1]] ELSE <<>>

\* getattr(course, f"{scoring_field}_languages4scoring", None)
languages_of(course, scoring_field) ==
    IF scoring_field \in DOMAIN course.languages4scoring
    THEN course.languages4scoring[scoring_field]
    ELSE None

\* The rows find_pattern_in_course_field hands to to_sql, <<>> when it
\* returns before reaching to_sql.
matched_patterns(course, scoring_field, pattern) ==
    LET text == course.col[scoring_field]
        languages == languages_of(course, scoring_field)
    IN  IF text.none \/ text.val = <<>> THEN <<>>
        ELSE IF languages.none \/ languages.val = <<>> THEN <<>>
        ELSE LET sub_patterns == sub_patterns_of(pattern, languages.val)
             IN  IF sub_patterns = <<>> THEN <<>>
                 ELSE chain(course, scoring_field, pattern, sub_patterns, text.val).rows

\* DataFrame.to_sql('T_matches', db, if_exists='append'): the DataFrame's
\* index is written as a column
to_sql(df) ==
    [i \in 1..Len(df) |->
        [index |-> i - 1, id |-> df[i].id, field |-> df[i].field,
         pattern |-> df[i].pattern, sub_pattern |-> df[i].sub_pattern,
         start |-> df[i].start, end |-> df[i].end, extract |-> df[i].extract]]

\* ------------------------------------------------------------- inputs
Pad(n) == [i \in 1..n |-> NBSP]

Texts == {<<"a", "b">>, Pad(MaxPad) \o <<"A">> \o Pad(MaxPad)}

Raised == [raised |-> TRUE, langs |-> <<>>]
Detected(ls) == [raised |-> FALSE, langs |-> ls]

Detections == {Raised, Detected(<<"it">>), Detected(<<"fr", "en">>)}

Declared == {<<"it", "nl">>, <<"nl", "fr">>}

\* the content field of a course with the detector's outcome on it
Contents ==
    {[text |-> None, det |-> Raised], [text |-> Some(<<>>), det |-> Raised]}
    \cup {[text |-> Some(t), det |-> d] : t \in Texts, d \in Detections}

CourseId(i) == [j \in 1..(i + 1) |-> IF j <= i THEN "a" ELSE "b"]

Course(i, content, declared) ==
    [col |-> [id |-> Some(CourseId(i)), content |-> content.text],
     detect |-> [id |-> Detected(<<"en">>), content |-> content.det],
     languages |-> declared]

Entry1 ==
    [pattern_id |-> 1, pattern_en |-> Some(<<"a", "b">>), pattern_fr |-> None,
     pattern_nl |-> Some(<<"a", "#", "b">>)]
Entry2 ==
    [pattern_id |-> 2, pattern_en |-> Some(<<"b", "#", "a">>),
     pattern_fr |-> Some(<<"a", "#">>), pattern_nl |-> None]

Taxonomies == {<<Entry1>>, <<Entry2, Entry1>>}

NoCall == [called |-> FALSE, c |-> 0, p |-> 0, f |-> 0, rows |-> <<>>]
NoPrev == [ran |-> FALSE, records |-> {}]

\* ------------------------------------------------------------- the run
Init ==
    /\ \E n \in 1..MaxCourses :
         \E contents \in [1..n -> Contents], declared \in [1..n -> Declared] :
            courses_json = [i \in 1..n |-> Course(i, contents[i], declared[i])]
    /\ patterns_json \in Taxonomies
    /\ courses = <<>>
    /\ patterns = <<>>
    /\ pc = "import_courses"
    /\ c = 1 /\ p = 1 /\ f = 1
    /\ tableExists = FALSE
    /\ T_matches = <<>>
    /\ export = None
    /\ last = NoCall
    /\ prev = NoPrev

\* import_courses: clean_text raises on a null value of a scoring field
ImportCoursesRaises ==
    /\ pc = "import_courses"
    /\ \E i \in 1..Len(courses_json), fld \in Range(SCORING_FIELDS) :
          courses_json[i].col[fld].none
    /\ pc' = "raised_import_courses"
    /\ UNCHANGED <<courses_json, patterns_json, courses, patterns, c, p, f,
                   tableExists, T_matches, export, last, prev>>

ImportCourses ==
    /\ pc = "import_courses"
    /\ \A i \in 1..Len(courses_json), fld \in Range(SCORING_FIELDS) :
          ~courses_json[i].col[fld].none
    /\ \E order \in SetOrders :
          courses' = [i \in 1..Len(courses_json) |-> course_row(courses_json[i], order)]
    /\ pc' = "import_patterns"
    /\ UNCHANGED <<courses_json, patterns_json, patterns, c, p, f,
                   tableExists, T_matches, export, last, prev>>

ImportPatterns ==
    /\ pc = "import_patterns"
    /\ patterns' = [i \in 1..Len(patterns_json) |-> pattern_row(patterns_json[i])]
    /\ pc' = "score"
    /\ UNCHANGED <<courses_json, patterns_json, courses, c, p, f,
                   tableExists, T_matches, export, last, prev>>

\* one iteration of the innermost loop of score
FindPatternInCourseField ==
    /\ pc = "score"
    /\ LET rows == matched_patterns(courses[c], SCORING_FIELDS[f], patterns[p])
       IN  /\ IF rows = <<>>
              THEN UNCHANGED <<tableExists, T_matches>>
              ELSE /\ tableExists' = TRUE
                   /\ T_matches' = T_matches \o to_sql(rows)
           /\ last' = [called |-> TRUE, c |-> c, p |-> p, f |-> f, rows |-> rows]
    /\ IF f < Len(SCORING_FIELDS)
       THEN f' = f + 1 /\ UNCHANGED <<c, p, pc>>
       ELSE IF p < Len(patterns)
       THEN f' = 1 /\ p' = p + 1 /\ UNCHANGED <<c, pc>>
       ELSE IF c < Len(courses)
       THEN f' = 1 /\ p' = 1 /\ c' = c + 1 /\ UNCHANGED pc
       ELSE pc' = "export" /\ UNCHANGED <<c, p, f>>
    /\ UNCHANGED <<courses_json, patterns_json, courses, patterns, export, prev>>

\* pd.read_sql('select * from T_matches', db).to_json(...)
Export ==
    /\ pc = "export"
    /\ tableExists
    /\ export' = Some(T_matches)
    /\ pc' = "done"
    /\ UNCHANGED <<courses_json, patterns_json, courses, patterns, c, p, f,
                   tableExists, T_matches, last, prev>>

\* read_sql raises when no call of to_sql created the table
ExportRaises ==
    /\ pc = "export"
    /\ ~tableExists
    /\ pc' = "raised_export"
    /\ UNCHANGED <<courses_json, patterns_json, courses, patterns, c, p, f,
                   tableExists, T_matches, export, last, prev>>

\* the script is started again on the same input files
RunAgain ==
    /\ pc \in {"done", "raised_export", "raised_import_courses"}
    /\ ~prev.ran
    /\ prev' = IF pc = "raised_import_courses" THEN prev
               ELSE [ran |-> TRUE, records |-> Range(T_matches)]
    /\ courses' = <<>>
    /\ patterns' = <<>>
    /\ pc' = "import_courses"
    /\ c' = 1 /\ p' = 1 /\ f' = 1
    /\ tableExists' = FALSE
    /\ T_matches' = <<>>
    /\ export' = None
    /\ last' = NoCall
    /\ UNCHANGED <<courses_json, patterns_json>>

Next ==
    \/ ImportCoursesRaises
    \/ ImportCourses
    \/ ImportPatterns
    \/ FindPatternInCourseField
    \/ Export
    \/ ExportRaises
    \/ RunAgain

Spec == Init /\ [][Next]_vars

\* ------------------------------------------------------------- properties
\* the call find_pattern_in_course_field(courses[c], SCORING_FIELDS[f], patterns[p])
\* that the next step of the loop makes
CallText == courses[c].col[SCORING_FIELDS[f]]
CallLanguages == languages_of(courses[c], SCORING_FIELDS[f])
CallChain == patterns[p][CallLanguages.val[1]]
Appended == SubSeq(T_matches', Len(T_matches) + 1, Len(T_matches'))

\* the same for the call recorded in last
LastText == courses[last.c].col[SCORING_FIELDS[last.f]]
LastLanguages == languages_of(courses[last.c], SCORING_FIELDS[last.f])
LastChain(l) == patterns[last.p][l]

NoMatch(sub_pattern, text) ==
    \A pos \in 0..(Len(text) - Len(sub_pattern)) : ~match_at(sub_pattern, text, pos)

RECURSIVE KeepAccepted(_)
KeepAccepted(ls) ==
    IF ls = <<>> THEN <<>>
    ELSE IF Head(ls) \in {"en", "fr", "nl"} THEN <<Head(ls)>> \o KeepAccepted(Tail(ls))
    ELSE KeepAccepted(Tail(ls))

Loaded == pc \in {"import_patterns", "score", "export", "done", "raised_export"}
Scorable == {SCORING_FIELDS[k] : k \in 2..Len(SCORING_FIELDS)}

\* C1: when some sub-pattern of the primary language's chain has no match in
\* the field text, the call appends nothing to the sink, whatever the
\* earlier sub-patterns of the chain matched.
C1_ChainAtomicCommit ==
    [][(/\ pc = "score"
        /\ ~CallText.none /\ ~CallLanguages.none
        /\ CallLanguages.val # <<>>
        /\ \E k \in 1..Len(CallChain) : NoMatch(CallChain[k], CallText.val))
       => (T_matches' = T_matches /\ tableExists' = tableExists)]_vars

C1_Witness ==
    /\ last.called /\ pc \in {"score", "export"}
    /\ ~LastLanguages.none /\ LastLanguages.val # <<>>
    /\ LET ch == LastChain(LastLanguages.val[1])
       IN  /\ Len(ch) >= 2
           /\ ~NoMatch(ch[1], LastText.val)
           /\ NoMatch(ch[2], LastText.val)
    /\ last.rows = <<>>

\* C2: when the text is present and detection raises, the resolved list is
\* the declared languages intersected with the accepted ones, never None.
C2_FallbackOnDetectionFailure ==
    Loaded =>
        \A i \in 1..Len(courses), fld \in Scorable :
            courses_json[i].detect[fld].raised /\ ~courses_json[i].col[fld].none
            => /\ ~courses[i].languages4scoring[fld].none
               /\ Range(courses[i].languages4scoring[fld].val)
                    = Range(courses_json[i].languages) \cap {"en", "fr", "nl"}

\* C3: a course with a null or empty scorable field does not make the run
\* fail, and the sink holds no record for that course and field.
C3_MissingFieldSilentSkip ==
    \A i \in 1..Len(courses_json), fld \in Scorable :
        (courses_json[i].col[fld].none \/ courses_json[i].col[fld] = Some(<<>>))
        => /\ pc \notin {"raised_import_courses", "raised_export"}
           /\ \A k \in 1..Len(T_matches) :
                ~(T_matches[k].id = courses_json[i].col["id"].val /\ T_matches[k].field = fld)

\* C4: once the loop has made every call, the export is written and holds
\* exactly the rows of the sink, also when no row was appended.
C4_ExportAtEnd ==
    pc \in {"done", "raised_export"} => (~export.none /\ export.val = T_matches)

\* C5: a second run on the same catalog, taxonomy and detector outcomes
\* ends with the same set of match records as the first.
C5_Determinism ==
    (prev.ran /\ pc \in {"export", "done", "raised_export"})
    => Range(T_matches) = prev.records

\* C6: the excerpt of every record is text[max(0, start-20) : min(end+20, L)].
C6_ExcerptWindow ==
    \A k \in 1..Len(T_matches) :
        \E i \in 1..Len(courses) :
            /\ courses[i].col["id"].val = T_matches[k].id
            /\ LET text == courses[i].col[T_matches[k].field].val
               IN  T_matches[k].extract =
                      SubSeq(text, Max(0, T_matches[k].start - 20) + 1,
                             Min(T_matches[k].end + 20, Len(text)))

\* C7: when detection succeeds, the resolved list is the detector's guesses
\* restricted to the accepted languages, in the detector's order, if that
\* is not empty, whatever was declared; otherwise it is a list of the
\* declared languages that are accepted.
C7_DetectionWins ==
    Loaded =>
        \A i \in 1..Len(courses), fld \in Scorable :
            ~courses_json[i].detect[fld].raised /\ ~courses_json[i].col[fld].none
            => LET kept == KeepAccepted(courses_json[i].detect[fld].langs)
                   got == courses[i].languages4scoring[fld]
               IN  /\ ~got.none
                   /\ kept # <<>> => got.val = kept
                   /\ kept = <<>> =>
                        /\ Range(got.val) = Range(courses_json[i].languages) \cap {"en", "fr", "nl"}
                        /\ Len(got.val) = Cardinality(Range(got.val))

C7_Witness ==
    /\ Loaded
    /\ \E i \in 1..Len(courses), fld \in Scorable :
          /\ courses_json[i].detect[fld] = Detected(<<"fr", "en">>)
          /\ Range(courses_json[i].languages) = {"it", "nl"}
          /\ courses[i].languages4scoring[fld] = Some(<<"fr", "en">>)

AcceptedOnly ==
    \A i \in 1..Len(courses) :
        \A fld \in DOMAIN courses[i].languages4scoring :
            ~courses[i].languages4scoring[fld].none
            => Range(courses[i].languages4scoring[fld].val) \subseteq {"en", "fr", "nl"}

\* C8: every resolved-languages list holds accepted codes only; the lists
\* exist once loading is over and no step of the matching loop changes them.
C8_AcceptedLanguageGate ==
    /\ [](AcceptedOnly /\ (pc = "score" => Len(courses) = Len(courses_json)))
    /\ [][pc = "score" => courses' = courses]_vars

C8_Witness ==
    /\ pc = "export"
    /\ \E i \in 1..Len(courses), fld \in Scorable :
          /\ ~courses[i].languages4scoring[fld].none
          /\ courses[i].languages4scoring[fld].val # <<>>
          /\ \E k \in 1..Len(courses_json[i].detect[fld].langs) :
                courses_json[i].detect[fld].langs[k] \notin {"en", "fr", "nl"}

\* C9: a call with a non-empty resolved list appends only records of the
\* chain of the first language of the list, and nothing when that chain is
\* empty.
C9_PrimaryLanguageOnly ==
    [][(/\ pc = "score"
        /\ ~CallLanguages.none
        /\ CallLanguages.val # <<>>)
       => /\ \A k \in 1..Len(Appended) : Appended[k].sub_pattern \in Range(CallChain)
          /\ CallChain = <<>> => T_matches' = T_matches]_vars

C9_Witness ==
    /\ last.called /\ pc \in {"score", "export"}
    /\ ~LastLanguages.none /\ Len(LastLanguages.val) >= 2
    /\ LastChain(LastLanguages.val[1]) = <<>>
    /\ LET other == LastChain(LastLanguages.val[2])
       IN  /\ other # <<>>
           /\ \A k \in 1..Len(other) : ~NoMatch(other[k], LastText.val)
    /\ last.rows = <<>>

\* C10: no record of the sink has the first configured field as its field.
C10_IdentifyingFieldNeverScored ==
    \A k \in 1..Len(T_matches) : T_matches[k].field # SCORING_FIELDS[1]

C10_Witness ==
    /\ last.called /\ pc \in {"score", "export"}
    /\ last.f = 1
    /\ \E l \in {"en", "fr", "nl"} :
          /\ LastChain(l) # <<>>
          /\ \A k \in 1..Len(LastChain(l)) : ~NoMatch(LastChain(l)[k], LastText.val)
    /\ last.rows = <<>>
    /\ T_matches # <<>>

====
